---------------------------- MODULE Spec2Model ----------------------------
(***************************************************************************)
(* Camera framing of the globe widget (GlobeScene): the geometry helpers   *)
(* wrapLng, angularDistance, cartesianFromLatLng, latLngFromCartesian and  *)
(* viewForPoints, and the component's effects that apply the framing and   *)
(* the scroll-coupled altitude to the globe's camera.                      *)
(*                                                                         *)
(* Numbers.  The source computes in IEEE doubles; the model computes in    *)
(* fixed point:                                                            *)
(*   - lengths, altitudes, progress and trigonometric values are integers  *)
(*     in units of 1/Scale (1.0 = 10000);                                  *)
(*   - angles are integers in tenths of a degree (180 degrees = 1800), in  *)
(*     the source's degrees and in its radians alike: Pi is the value of   *)
(*     Math.PI in that unit, so toRad and toDeg change the unit's name     *)
(*     but not the number held.                                            *)
(* A double that is not zero is never rounded to zero: Math.sin(Math.PI)   *)
(* is 1.2246e-16 and Math.cos(Math.PI / 2) is 6.1232e-17, not 0, and the   *)
(* source compares a magnitude with 0 exactly.  Such a value is held as    *)
(* one unit (Residue), and a product that is not zero stays not zero.      *)
(***************************************************************************)
EXTENDS Integers, Sequences, FiniteSets, TLC

Scale == 10 * 1000
AngleScale == 1800 \div 180
Pi == 180 * AngleScale
HalfPi == 90 * AngleScale

\* Math.sin(Math.PI) and Math.cos(Math.PI / 2) as doubles: tiny, positive, not 0.
Residue == 1
\* The result of Math.asin outside [-1, 1].
NaN == -999999

Abs(a) == IF a < 0 THEN -a ELSE a
Sgn(a) == IF a > 0 THEN 1 ELSE IF a < 0 THEN -1 ELSE 0
Min(a, b) == IF a < b THEN a ELSE b
Max(a, b) == IF a > b THEN a ELSE b

\* n / d to the nearest integer, d > 0.
RoundDiv(n, d) == Sgn(n) * ((2 * Abs(n) + d) \div (2 * d))

\* a * b of two fixed-point numbers.
Mul(a, b) ==
    LET p == a * b
        q == RoundDiv(p, Scale)
    IN  IF q = 0 /\ p # 0 THEN Sgn(p) ELSE q

\* a / b of two fixed-point numbers, b # 0.
Div(a, b) ==
    LET n == a * Scale
        s == Sgn(n) * Sgn(b)
        q == s * ((2 * Abs(n) + Abs(b)) \div (2 * Abs(b)))
    IN  IF q = 0 /\ n # 0 THEN s ELSE q

\* The remainder operator % of the source language: the sign of the dividend.
JsRem(a, b) == Sgn(a) * (Abs(a) % b)

RECURSIVE SqrtFloor(_, _, _)
SqrtFloor(n, lo, hi) ==
    IF lo = hi THEN lo
    ELSE LET mid == (lo + hi + 1) \div 2
         IN  IF mid * mid <= n THEN SqrtFloor(n, mid, hi)
             ELSE SqrtFloor(n, lo, mid - 1)

\* Math.sqrt of a value held in units of 1/Scale^2; the result in units of 1/Scale.
Sqrt(n) ==
    LET r == SqrtFloor(n, 0, 46340)
    IN  IF n - r * r > r THEN r + 1 ELSE r

\* sin at whole degrees 0..90.
SinTab ==
    << 0, 175, 349, 523, 698, 872, 1045, 1219, 1392, 1564,
       1736, 1908, 2079, 2250, 2419, 2588, 2756, 2924, 3090, 3256,
       3420, 3584, 3746, 3907, 4067, 4226, 4384, 4540, 4695, 4848,
       5000, 5150, 5299, 5446, 5592, 5736, 5878, 6018, 6157, 6293,
       6428, 6561, 6691, 6820, 6947, 7071, 7193, 7314, 7431, 7547,
       7660, 7771, 7880, 7986, 8090, 8192, 8290, 8387, 8480, 8572,
       8660, 8746, 8829, 8910, 8988, 9063, 9135, 9205, 9272, 9336,
       9397, 9455, 9511, 9563, 9613, 9659, 9703, 9744, 9781, 9816,
       9848, 9877, 9903, 9925, 9945, 9962, 9976, 9986, 9994, 9998,
       10000 >>

\* sin of an angle in 0..HalfPi, between the table's entries by interpolation.
SinQ(a) ==
    LET d == a \div AngleScale
        f == a % AngleScale
    IN  IF f = 0 THEN SinTab[d + 1]
        ELSE SinTab[d + 1]
               + (((SinTab[d + 2] - SinTab[d + 1]) * f + (AngleScale \div 2)) \div AngleScale)

\* Math.sin(toRad(a)) for a in -Pi..Pi.
RECURSIVE Sin(_)
Sin(a) ==
    IF a < 0 THEN -Sin(-a)
    ELSE IF a <= HalfPi THEN SinQ(a)
    ELSE IF a < Pi THEN SinQ(Pi - a)
    ELSE Residue

\* Math.cos(toRad(a)) for a in -Pi..Pi.
Cos(a) ==
    LET b == Abs(a)
    IN  IF b < HalfPi THEN SinQ(HalfPi - b)
        ELSE IF b = HalfPi THEN Residue
        ELSE -SinQ(b - HalfPi)

\* The largest angle in lo..hi whose sine is at most s.
RECURSIVE AsinFloor(_, _, _)
AsinFloor(s, lo, hi) ==
    IF lo = hi THEN lo
    ELSE LET mid == (lo + hi + 1) \div 2
         IN  IF SinQ(mid) <= s THEN AsinFloor(s, mid, hi)
             ELSE AsinFloor(s, lo, mid - 1)

\* Math.asin(s): the nearest angle, NaN outside [-1, 1]; s >= 0 is all the source passes.
Asin(s) ==
    IF s < 0 \/ s > Scale THEN NaN
    ELSE LET lo == AsinFloor(s, 0, HalfPi)
         IN  IF lo = HalfPi THEN HalfPi
             ELSE IF SinQ(lo + 1) - s < s - SinQ(lo) THEN lo + 1 ELSE lo

\* The largest angle a in lo..hi with tan(a) <= y / x, for x >= 0, y >= 0.
RECURSIVE AtanFloor(_, _, _, _)
AtanFloor(y, x, lo, hi) ==
    IF lo = hi THEN lo
    ELSE LET mid == (lo + hi + 1) \div 2
         IN  IF x * SinQ(mid) <= y * SinQ(HalfPi - mid) THEN AtanFloor(y, x, mid, hi)
             ELSE AtanFloor(y, x, lo, mid - 1)

AtanQ(y, x) ==
    LET lo == AtanFloor(y, x, 0, HalfPi)
    IN  IF lo = HalfPi THEN HalfPi
        ELSE LET under == y * SinQ(HalfPi - lo) - x * SinQ(lo)
                 over  == x * SinQ(lo + 1) - y * SinQ(HalfPi - lo - 1)
             IN  IF over < under THEN lo + 1 ELSE lo

\* toDeg(Math.atan2(y, x)): an angle in -Pi..Pi.
Atan2(y, x) ==
    IF x = 0 /\ y = 0 THEN 0
    ELSE IF x >= 0 /\ y >= 0 THEN AtanQ(y, x)
    ELSE IF x < 0 /\ y >= 0 THEN Pi - AtanQ(y, -x)
    ELSE IF x < 0 THEN -(Pi - AtanQ(-y, -x))
    ELSE -AtanQ(-y, x)

\* An angle halved (dLat / 2, dLng / 2), to the nearest tenth of a degree.
HalfAngle(a) == Sgn(a) * ((Abs(a) + 1) \div 2)

-----------------------------------------------------------------------------
(* The geometry helpers. *)

DEFAULT_POINT_OF_VIEW == [lat |-> 20 * AngleScale, lng |-> 0]
FAR_ALTITUDE == 46000
CLOSE_ALTITUDE == 11000
\* The one-point margin 0.1, the close offset 1.35, the weights 0.35 and 0.65.
ONE_POINT_MARGIN == 1000
CLOSE_DELTA == 13500
SPREAD_FLOOR == 3500
SPREAD_WEIGHT == 6500

\* wrapLng with the correction taken at -180 too.
wrapLng_inclusive(lng) ==
    LET wrapped == JsRem(lng + Pi, 2 * Pi) - Pi
    IN  IF wrapped <= -Pi THEN wrapped + 2 * Pi ELSE wrapped

wrapLng(lng) ==
    LET wrapped == JsRem(lng + Pi, 2 * Pi) - Pi
    IN  IF wrapped < -Pi THEN wrapped + 2 * Pi ELSE wrapped

\* h of angularDistance, in units of 1/Scale^2.
Haversine(a, b) ==
    LET dLat == b.lat - a.lat
        dLng == b.lng - a.lng
        sLat == Sin(HalfAngle(dLat))
        sLng == Sin(HalfAngle(dLng))
    IN  sLat * sLat + Mul(Mul(Cos(a.lat), Cos(b.lat)), sLng) * sLng

\* The argument of Math.asin without the clamp to 1.
AsinArg_unclamped(a, b) == Sqrt(Haversine(a, b))

\* The argument angularDistance passes to Math.asin.
AsinArg(a, b) == Min(Scale, Sqrt(Haversine(a, b)))

angularDistance(a, b) ==
    LET r == Asin(AsinArg(a, b))
    IN  IF r = NaN THEN NaN ELSE 2 * r

\* cartesianFromLatLng with the sine and cosine of the longitude exchanged.
cartesianFromLatLng_swapped(p) ==
    [x |-> Mul(Cos(p.lat), Sin(p.lng)),
     y |-> Mul(Cos(p.lat), Cos(p.lng)),
     z |-> Sin(p.lat)]

cartesianFromLatLng(p) ==
    [x |-> Mul(Cos(p.lat), Cos(p.lng)),
     y |-> Mul(Cos(p.lat), Sin(p.lng)),
     z |-> Sin(p.lat)]

latLngFromCartesian(v) ==
    LET hyp == Sqrt(v.x * v.x + v.y * v.y)
    IN  [lat |-> Atan2(v.z, hyp), lng |-> wrapLng(Atan2(v.y, v.x))]

RECURSIVE SumVectors(_)
SumVectors(pts) ==
    IF pts = << >> THEN [x |-> 0, y |-> 0, z |-> 0]
    ELSE LET acc == SumVectors(SubSeq(pts, 1, Len(pts) - 1))
             c   == cartesianFromLatLng(pts[Len(pts)])
         IN  [x |-> acc.x + c.x, y |-> acc.y + c.y, z |-> acc.z + c.z]

Magnitude(v) == Sqrt(v.x * v.x + v.y * v.y + v.z * v.z)

\* The centroid of a reduce that has no initial value: the first point is not summed.
CenterOf_skipFirst(pts) ==
    LET sum == SumVectors(Tail(pts))
        magnitude == Magnitude(sum)
    IN  IF magnitude = 0 THEN DEFAULT_POINT_OF_VIEW
        ELSE latLngFromCartesian([x |-> Div(sum.x, magnitude),
                                  y |-> Div(sum.y, magnitude),
                                  z |-> Div(sum.z, magnitude)])

CenterOf(pts) ==
    LET sum == SumVectors(pts)
        magnitude == Magnitude(sum)
    IN  IF magnitude = 0 THEN DEFAULT_POINT_OF_VIEW
        ELSE latLngFromCartesian([x |-> Div(sum.x, magnitude),
                                  y |-> Div(sum.y, magnitude),
                                  z |-> Div(sum.z, magnitude)])

\* The spread measured from the default point of view instead of the center.
RECURSIVE MaxAngularSpread_fromDefault(_, _)
MaxAngularSpread_fromDefault(center, pts) ==
    IF pts = << >> THEN 0
    ELSE Max(MaxAngularSpread_fromDefault(center, SubSeq(pts, 1, Len(pts) - 1)),
             angularDistance(DEFAULT_POINT_OF_VIEW, pts[Len(pts)]))

RECURSIVE MaxAngularSpread(_, _)
MaxAngularSpread(center, pts) ==
    IF pts = << >> THEN 0
    ELSE Max(MaxAngularSpread(center, SubSeq(pts, 1, Len(pts) - 1)),
             angularDistance(center, pts[Len(pts)]))

SpreadRatio(maxAngularSpread) == Min(RoundDiv(maxAngularSpread * Scale, HalfPi), Scale)

ClampAltitude(farAltitude) == Min(Max(farAltitude, CLOSE_ALTITUDE), FAR_ALTITUDE)

\* The far altitude without the 0.35 floor.
FarAltitudeFor_noFloor(spreadRatio) ==
    CLOSE_ALTITUDE + Mul(FAR_ALTITUDE - CLOSE_ALTITUDE, Mul(SPREAD_WEIGHT, spreadRatio))

FarAltitudeFor(spreadRatio) ==
    CLOSE_ALTITUDE
      + Mul(FAR_ALTITUDE - CLOSE_ALTITUDE, SPREAD_FLOOR + Mul(SPREAD_WEIGHT, spreadRatio))

\* viewForPoints with the one-point margin subtracted.
viewForPoints_marginBelow(pts) ==
    IF Len(pts) = 0 THEN
        [lat |-> DEFAULT_POINT_OF_VIEW.lat, lng |-> DEFAULT_POINT_OF_VIEW.lng,
         farAltitude |-> FAR_ALTITUDE]
    ELSE IF Len(pts) = 1 THEN
        [lat |-> pts[1].lat, lng |-> pts[1].lng,
         farAltitude |-> CLOSE_ALTITUDE - ONE_POINT_MARGIN]
    ELSE
        LET center == CenterOf(pts)
            spreadRatio == SpreadRatio(MaxAngularSpread(center, pts))
        IN  [lat |-> center.lat, lng |-> center.lng,
             farAltitude |-> ClampAltitude(FarAltitudeFor(spreadRatio))]

\* viewForPoints without the case of no pts.
viewForPoints_noEmptyCase(pts) ==
    IF Len(pts) = 1 THEN
        [lat |-> pts[1].lat, lng |-> pts[1].lng,
         farAltitude |-> CLOSE_ALTITUDE + ONE_POINT_MARGIN]
    ELSE
        LET center == CenterOf(pts)
            spreadRatio == SpreadRatio(MaxAngularSpread(center, pts))
        IN  [lat |-> center.lat, lng |-> center.lng,
             farAltitude |-> ClampAltitude(FarAltitudeFor(spreadRatio))]

viewForPoints(pts) ==
    IF Len(pts) = 0 THEN
        [lat |-> DEFAULT_POINT_OF_VIEW.lat, lng |-> DEFAULT_POINT_OF_VIEW.lng,
         farAltitude |-> FAR_ALTITUDE]
    ELSE IF Len(pts) = 1 THEN
        [lat |-> pts[1].lat, lng |-> pts[1].lng,
         farAltitude |-> CLOSE_ALTITUDE + ONE_POINT_MARGIN]
    ELSE
        LET center == CenterOf(pts)
            spreadRatio == SpreadRatio(MaxAngularSpread(center, pts))
        IN  [lat |-> center.lat, lng |-> center.lng,
             farAltitude |-> ClampAltitude(FarAltitudeFor(spreadRatio))]


-----------------------------------------------------------------------------
(* The component: GlobeScene's state, effects and callbacks. *)

\* The earlier revision of the component frames a fixed point of view.
BASE_POINT_OF_VIEW == [lat |-> 20 * AngleScale, lng |-> 0]
FAR_ALTITUDE_FIXED == 12000
CLOSE_ALTITUDE_FIXED == 6000
\* The update-suppression threshold 0.0005.
EPSILON == 5

VARIABLES
    revision,           \* "framing": viewForPoints frames the points; "fixed": the earlier revision
    points,             \* the points memo
    basePointOfView,    \* the basePointOfView memo: lat, lng, farAltitude
    closeAltitude,      \* the closeAltitude memo
    zoomProgress,       \* prop
    texturesReady,      \* prop
    phase,              \* "rendered" (first render done, effects not yet run), "mounted", "unmounted"
    globeRef,           \* globeRef.current is set
    globeReadyFired,    \* the globe has called onGlobeReady
    lastAltitudeRef,    \* << >> for null, else << altitude >>
    raf,                \* an animation frame for applyBasePointOfView is pending
    timeout,            \* the 120 ms timeout for applyBasePointOfView is pending
    camera,             \* the globe's point of view: << >> until first set, else << [lat, lng, altitude] >>
    firstCall,          \* the first call of g.pointOfView: << >> or << [by, pov] >>
    lastCall,           \* the latest call of g.pointOfView: << >> or << [by, pov] >>
    applied,            \* the calls of g.pointOfView made by the latest step, in order
    resetFrom,          \* << memo >> when the latest step ran the memo reset on that memo, else << >>
    call                \* the latest application of a helper or a route handler

\* The page (Home) that supplies zoomProgress, and its window.
VARIABLES
    homePhase,          \* "rendered" (effects not yet run), "mounted", "unmounted"
    scrollY,            \* window.scrollY
    innerHeight,        \* window.innerHeight
    scrollFrameRef,     \* scrollFrameRef.current: << >> for null, else << frame id >>
    frameQueue,         \* the ids of the animation frames requested and not yet fired or cancelled
    nextFrame,          \* the id the next requestAnimationFrame returns
    scrollProgress,     \* the scrollProgress state
    pendingEvents,      \* the calls of handleScroll since the latest computation
    computed            \* the latest computation: << >> or << [frame, progress, scrollY,
                        \* innerHeight, events] >>

\* The admin session: the server's clock and the browser's cookie.
VARIABLES
    clock,              \* Date.now(), in seconds and milliseconds
    cookie              \* the session cookie: << >> or << [value, maxAge] >>

homeVars == << homePhase, scrollY, innerHeight, scrollFrameRef, frameQueue, nextFrame,
               scrollProgress, pendingEvents, computed >>
authVars == << clock, cookie >>

\* The now-playing route (GET) and the module state it keeps between requests.
VARIABLES
    tokenCache,         \* tokenCache: accessToken (<< >> for null, else << token >>), expiresAt
    playbackCache,      \* playbackCache: payload (<< >> for null, else << payload >>), fetchedAt
    dateNow,            \* Date.now() on the server, in ms
    env,                \* the three SPOTIFY_ variables are set
    inv,                \* the GET invocations in progress: where each is and what it has done
    started             \* the number of GET invocations started

spotifyVars == << tokenCache, playbackCache, dateNow, env, inv, started >>

sceneVars == << revision, points, basePointOfView, closeAltitude, zoomProgress, texturesReady,
                phase, globeRef, globeReadyFired, lastAltitudeRef, raf, timeout, camera,
                firstCall, lastCall, applied, resetFrom >>
vars == << revision, points, basePointOfView, closeAltitude, zoomProgress, texturesReady,
           phase, globeRef, globeReadyFired, lastAltitudeRef, raf, timeout, camera,
           firstCall, lastCall, applied, resetFrom, call, homeVars, authVars, spotifyVars >>

\* The longest point sequence framed.
MaxPoints == 3

Point(lat, lng) == [lat |-> lat * AngleScale, lng |-> lng * AngleScale]

\* The component's two points, to the tenth of a degree.
me == [lat |-> 458, lng |-> 160]
viewer == [lat |-> 378, lng |-> -1224]
AppPoints == << me, viewer >>

GridLat == {-60, -30, 0, 30, 60}
GridLng == {-180, -150, -90, -30, 0, 30, 90, 150, 180}
GeoPoints == {Point(lat, lng) : lat \in GridLat, lng \in GridLng}
                \cup {Point(90, 0), Point(-90, 0)}
FewPoints == {Point(0, 0), Point(0, 180), Point(0, -180), Point(0, 90),
              Point(30, 30), Point(-30, -150)}
ScenePoints == {Point(0, 0), Point(0, 180), Point(30, 30)}

SeqsOver(S, from, to) == UNION {[1..n -> S] : n \in from..to}

\* The point sequences handed to viewForPoints.
PointSeqs == SeqsOver(GeoPoints, 0, 2) \cup SeqsOver(FewPoints, 3, MaxPoints) \cup {AppPoints}
\* The point sequences the component is mounted with.
SceneSeqs == SeqsOver(ScenePoints, 0, MaxPoints) \cup {AppPoints}

\* zoomProgress values, in and out of [0, 1].
ProgressInputs == {-5000, 0, 2500, 2502, 2504, 5000, 10000, 15000}

\* closeAltitude without the floor.
CloseAltitudeFor_noFloor(farAltitude) == farAltitude - CLOSE_DELTA

CloseAltitudeFor(farAltitude) == Max(CLOSE_ALTITUDE, farAltitude - CLOSE_DELTA)

\* zoomProgress used as it comes.
ClampProgress_none(progress) == progress

ClampProgress(progress) == Min(Max(progress, 0), Scale)

\* The interpolation with the travel added instead of subtracted.
TargetAltitude_added(farAltitude, close, progress) ==
    farAltitude + Mul(farAltitude - close, ClampProgress(progress))

TargetAltitude(farAltitude, close, progress) ==
    farAltitude - Mul(farAltitude - close, ClampProgress(progress))

\* The base point of view centered on the default point of view.
BasePov_default == [lat |-> DEFAULT_POINT_OF_VIEW.lat, lng |-> DEFAULT_POINT_OF_VIEW.lng,
                    altitude |-> basePointOfView.farAltitude]

BasePov == [lat |-> basePointOfView.lat, lng |-> basePointOfView.lng,
            altitude |-> basePointOfView.farAltitude]

\* The skip taken at a difference of exactly the threshold too.
Suppressed_inclusive(memo, target) == memo # << >> /\ Abs(memo[1] - target) <= EPSILON

\* Whether the progress effect skips the update for this target.
Suppressed(memo, target) == memo # << >> /\ Abs(memo[1] - target) < EPSILON

\* One call of g.pointOfView(pov, 0), recorded after the calls so far.
Record(first, by, pov) == IF first = << >> THEN << [by |-> by, pov |-> pov] >> ELSE first

InitScene(rev, pts, base, close) ==
    /\ revision = rev
    /\ points = pts
    /\ basePointOfView = base
    /\ closeAltitude = close
    /\ phase = "rendered"
    /\ globeRef = FALSE
    /\ globeReadyFired = FALSE
    /\ lastAltitudeRef = << >>
    /\ raf = FALSE
    /\ timeout = FALSE
    /\ camera = << >>
    /\ firstCall = << >>
    /\ lastCall = << >>
    /\ applied = << >>
    /\ resetFrom = << >>

NoCall == [op |-> "none"]

\* The page before its effects have run, the window at the top.
HomeRendered(y, h) ==
    /\ homePhase = "rendered"
    /\ scrollY = y
    /\ innerHeight = h
    /\ scrollFrameRef = << >>
    /\ frameQueue = {}
    /\ nextFrame = 1
    /\ scrollProgress = 0
    /\ pendingEvents = 0
    /\ computed = << >>

\* The invocations of GET that can be in progress at once.
Invocations == {1, 2}

\* An invocation that has not started.
Idle == [pc |-> "idle", retry |-> TRUE, sent |-> << >>, tokenRequests |-> 0,
         result |-> "none", status |-> 0]

\* The module state of the now-playing route when the server starts.
NoPlayback ==
    /\ tokenCache = [accessToken |-> << >>, expiresAt |-> 0]
    /\ playbackCache = [payload |-> << >>, fetchedAt |-> 0]
    /\ dateNow = 0
    /\ env = TRUE
    /\ inv = [p \in Invocations |-> Idle]
    /\ started = 0

\* No session: the clock at its start and no cookie.
NoSession ==
    /\ clock = [s |-> 0, ms |-> 0]
    /\ cookie = << >>

Init ==
    /\ call = NoCall
    /\ HomeRendered(0, 0)
    /\ NoSession
    /\ NoPlayback
    /\ zoomProgress \in ProgressInputs
    /\ texturesReady \in BOOLEAN
    /\ \/ \E pts \in SceneSeqs :
             InitScene("framing", pts, viewForPoints(pts),
                       CloseAltitudeFor(viewForPoints(pts).farAltitude))
       \/ InitScene("fixed", AppPoints,
                    [lat |-> BASE_POINT_OF_VIEW.lat, lng |-> BASE_POINT_OF_VIEW.lng,
                     farAltitude |-> FAR_ALTITUDE_FIXED],
                    CLOSE_ALTITUDE_FIXED)

\* The globe component mounts and the ref is attached.
GlobeAttach ==
    /\ phase # "unmounted"
    /\ ~globeRef
    /\ globeRef' = TRUE
    /\ applied' = << >>
    /\ resetFrom' = << >>
    /\ UNCHANGED << revision, points, basePointOfView, closeAltitude, zoomProgress,
                    texturesReady, phase, globeReadyFired, lastAltitudeRef, raf, timeout,
                    camera, firstCall, lastCall, call, homeVars, authVars, spotifyVars >>

\* The effects of the first commit, in the order they are declared: the memo reset, the
\* controls effect, the re-assert effect and the zoomProgress effect.
Mount ==
    /\ phase = "rendered"
    /\ phase' = "mounted"
    /\ raf' = TRUE
    /\ timeout' = TRUE
    /\ resetFrom' = IF revision = "framing" THEN << lastAltitudeRef >> ELSE << >>
    /\ IF globeRef
       THEN LET target == TargetAltitude(basePointOfView.farAltitude, closeAltitude,
                                         zoomProgress)
                pov == [lat |-> basePointOfView.lat, lng |-> basePointOfView.lng,
                        altitude |-> target]
            IN  \* the memo is null after the reset, so the zoomProgress effect applies
                /\ lastAltitudeRef' = << target >>
                /\ camera' = << pov >>
                /\ firstCall' = Record(firstCall, "controls", BasePov)
                /\ lastCall' = << [by |-> "progress", pov |-> pov] >>
                /\ applied' = << [by |-> "controls", pov |-> BasePov],
                                 [by |-> "progress", pov |-> pov] >>
       ELSE /\ lastAltitudeRef' = << >>
            /\ applied' = << >>
            /\ UNCHANGED << camera, firstCall, lastCall >>
    /\ UNCHANGED << revision, points, basePointOfView, closeAltitude, zoomProgress,
                    texturesReady, globeRef, globeReadyFired, call, homeVars, authVars, spotifyVars >>

\* applyBasePointOfView applying the base point of view without recording its altitude.
ApplyBasePointOfView_memoUntouched ==
    IF globeRef
    THEN /\ camera' = << BasePov >>
         /\ firstCall' = Record(firstCall, "base", BasePov)
         /\ lastCall' = << [by |-> "base", pov |-> BasePov] >>
         /\ applied' = << [by |-> "base", pov |-> BasePov] >>
         /\ UNCHANGED lastAltitudeRef
    ELSE /\ applied' = << >>
         /\ UNCHANGED << lastAltitudeRef, camera, firstCall, lastCall >>

\* applyBasePointOfView, as a step on the memo and the camera.
ApplyBasePointOfView ==
    IF globeRef
    THEN /\ lastAltitudeRef' = << basePointOfView.farAltitude >>
         /\ camera' = << BasePov >>
         /\ firstCall' = Record(firstCall, "base", BasePov)
         /\ lastCall' = << [by |-> "base", pov |-> BasePov] >>
         /\ applied' = << [by |-> "base", pov |-> BasePov] >>
    ELSE /\ applied' = << >>
         /\ UNCHANGED << lastAltitudeRef, camera, firstCall, lastCall >>

\* The globe reports it is ready: onGlobeReady={applyBasePointOfView}.
OnGlobeReady ==
    /\ phase = "mounted"
    /\ globeRef
    /\ ~globeReadyFired
    /\ globeReadyFired' = TRUE
    /\ ApplyBasePointOfView
    /\ resetFrom' = << >>
    /\ UNCHANGED << revision, points, basePointOfView, closeAltitude, zoomProgress,
                    texturesReady, phase, globeRef, raf, timeout, call, homeVars, authVars, spotifyVars >>

\* The pending animation frame fires.
RafFire ==
    /\ phase = "mounted"
    /\ raf
    /\ raf' = FALSE
    /\ ApplyBasePointOfView
    /\ resetFrom' = << >>
    /\ UNCHANGED << revision, points, basePointOfView, closeAltitude, zoomProgress,
                    texturesReady, phase, globeRef, globeReadyFired, timeout, call, homeVars, authVars, spotifyVars >>

\* The pending 120 ms timeout fires.
TimeoutFire ==
    /\ phase = "mounted"
    /\ timeout
    /\ timeout' = FALSE
    /\ ApplyBasePointOfView
    /\ resetFrom' = << >>
    /\ UNCHANGED << revision, points, basePointOfView, closeAltitude, zoomProgress,
                    texturesReady, phase, globeRef, globeReadyFired, raf, call, homeVars, authVars, spotifyVars >>

\* texturesReady changes: the re-assert effect is cleaned up and runs again.
ChangeTexturesReady ==
    /\ phase = "mounted"
    /\ texturesReady' = ~texturesReady
    /\ raf' = TRUE
    /\ timeout' = TRUE
    /\ applied' = << >>
    /\ resetFrom' = << >>
    /\ UNCHANGED << revision, points, basePointOfView, closeAltitude, zoomProgress, phase,
                    globeRef, globeReadyFired, lastAltitudeRef, camera, firstCall, lastCall,
                    call, homeVars, authVars, spotifyVars >>

\* zoomProgress changes: the zoomProgress effect runs.
ChangeZoomProgress ==
    /\ phase = "mounted"
    /\ \E progress \in ProgressInputs \ {zoomProgress} :
          /\ zoomProgress' = progress
          /\ LET target == TargetAltitude(basePointOfView.farAltitude, closeAltitude,
                                          progress)
                 pov == [lat |-> basePointOfView.lat, lng |-> basePointOfView.lng,
                         altitude |-> target]
             IN  IF globeRef /\ ~Suppressed(lastAltitudeRef, target)
                 THEN /\ lastAltitudeRef' = << target >>
                      /\ camera' = << pov >>
                      /\ firstCall' = Record(firstCall, "progress", pov)
                      /\ lastCall' = << [by |-> "progress", pov |-> pov] >>
                      /\ applied' = << [by |-> "progress", pov |-> pov] >>
                 ELSE /\ applied' = << >>
                      /\ UNCHANGED << lastAltitudeRef, camera, firstCall, lastCall >>
    /\ resetFrom' = << >>
    /\ UNCHANGED << revision, points, basePointOfView, closeAltitude, texturesReady, phase,
                    globeRef, globeReadyFired, raf, timeout, call, homeVars, authVars, spotifyVars >>

\* The component unmounts: the re-assert effect's cleanup cancels the frame and the timeout.
Unmount ==
    /\ phase = "mounted"
    /\ phase' = "unmounted"
    /\ raf' = FALSE
    /\ timeout' = FALSE
    /\ applied' = << >>
    /\ resetFrom' = << >>
    /\ UNCHANGED << revision, points, basePointOfView, closeAltitude, zoomProgress,
                    texturesReady, globeRef, globeReadyFired, lastAltitudeRef, camera,
                    firstCall, lastCall, call, homeVars, authVars, spotifyVars >>

Next ==
    \/ GlobeAttach
    \/ Mount
    \/ OnGlobeReady
    \/ RafFire
    \/ TimeoutFire
    \/ ChangeTexturesReady
    \/ ChangeZoomProgress
    \/ Unmount

Spec == Init /\ [][Next]_vars

-----------------------------------------------------------------------------
(* The component when the points memo is recomputed. *)

\* The point sequences the points memo changes between: framings that differ in center
\* only, in farAltitude, and two orders of the same points.
ReframeSeqs == << << >>, << Point(0, 0) >>, << Point(30, 30) >>,
                 << Point(0, 0), Point(30, 30) >>, << Point(30, 30), Point(0, 0) >>,
                 AppPoints >>

\* The basePointOfView memo for each of them.
FramingOf == [i \in DOMAIN ReframeSeqs |-> viewForPoints(ReframeSeqs[i])]

InitReframe ==
    /\ call = NoCall
    /\ HomeRendered(0, 0)
    /\ NoSession
    /\ NoPlayback
    /\ zoomProgress \in ProgressInputs
    /\ texturesReady \in BOOLEAN
    /\ \E i \in DOMAIN ReframeSeqs :
          \E base \in {FramingOf[i]} :
              InitScene("framing", ReframeSeqs[i], base, CloseAltitudeFor(base.farAltitude))

\* The memo with the reset effect left out.
MemoAfterReset_kept(changed, memo) == memo

\* The memo after the memo reset effect, which runs when basePointOfView's numbers changed.
MemoAfterReset(changed, memo) == IF changed THEN << >> ELSE memo

\* The controls effect's call made at the close altitude.
ControlsCall_close(base) ==
    [by |-> "controls",
     pov |-> [lat |-> base.lat, lng |-> base.lng, altitude |-> CLOSE_ALTITUDE]]

\* The call of g.pointOfView the controls effect makes.
ControlsCall(base) ==
    [by |-> "controls",
     pov |-> [lat |-> base.lat, lng |-> base.lng, altitude |-> base.farAltitude]]

\* The points memo is recomputed and the component renders again: basePointOfView and
\* closeAltitude follow, and the effects whose dependencies changed run in the order they
\* are declared. The memo reset and the controls effect depend on the three numbers of
\* basePointOfView; applyBasePointOfView and the zoomProgress effect on the object.
ChangePoints ==
    /\ phase = "mounted"
    /\ revision = "framing"
    /\ \E i \in {j \in DOMAIN ReframeSeqs : ReframeSeqs[j] # points} :
       \E base \in {FramingOf[i]} :
          LET seq == ReframeSeqs[i]
              close == CloseAltitudeFor(base.farAltitude)
              changed == base # basePointOfView
              memo == MemoAfterReset(changed, lastAltitudeRef)
              controls == IF changed /\ globeRef THEN << ControlsCall(base) >> ELSE << >>
              target == TargetAltitude(base.farAltitude, close, zoomProgress)
              progress == IF globeRef /\ ~Suppressed(memo, target)
                          THEN << [by |-> "progress",
                                   pov |-> [lat |-> base.lat, lng |-> base.lng,
                                            altitude |-> target]] >>
                          ELSE << >>
              calls == controls \o progress
          IN  /\ points' = seq
              /\ basePointOfView' = base
              /\ closeAltitude' = close
              /\ resetFrom' = IF changed THEN << lastAltitudeRef >> ELSE << >>
              /\ lastAltitudeRef' = IF progress # << >> THEN << target >> ELSE memo
              /\ applied' = calls
              /\ camera' = IF calls # << >> THEN << calls[Len(calls)].pov >> ELSE camera
              /\ firstCall' = IF firstCall = << >> /\ calls # << >>
                              THEN << calls[1] >> ELSE firstCall
              /\ lastCall' = IF calls # << >> THEN << calls[Len(calls)] >> ELSE lastCall
    /\ raf' = TRUE
    /\ timeout' = TRUE
    /\ UNCHANGED << revision, zoomProgress, texturesReady, phase, globeRef, globeReadyFired,
                    call, homeVars, authVars, spotifyVars >>

NextReframe ==
    \/ Next
    \/ ChangePoints

SpecReframe == InitReframe /\ [][NextReframe]_vars

-----------------------------------------------------------------------------
(* The geometry helpers applied to inputs drawn from bounded sets. *)

\* Longitudes handed to wrapLng: the range of toDeg(Math.atan2(y, x)) and beyond it.
LngInputs == {d * AngleScale : d \in {-540, -360, -270, -181, -180, -179, -90, 0, 90, 179,
                                      180, 181, 270, 360, 540}}
                \cup {-Pi - 1, -Pi + 1, Pi - 1, Pi + 1}

\* Vectors handed to latLngFromCartesian: the axes, and diagonals of the axis planes.
AxisValues == {-Scale, 0, Scale}
Vectors == {[x |-> vx, y |-> vy, z |-> vz] : vx \in AxisValues, vy \in AxisValues,
                                             vz \in AxisValues}
             \ {[x |-> 0, y |-> 0, z |-> 0]}

\* Points handed to angularDistance: the grid, and an antipodal pair for which the
\* rounded square root of h exceeds 1.
DistancePoints == GeoPoints \cup {Point(35, 0), Point(-35, 180)}

InitGeo ==
    /\ call = NoCall
    /\ HomeRendered(0, 0)
    /\ NoSession
    /\ NoPlayback
    /\ zoomProgress = 0
    /\ texturesReady = TRUE
    /\ InitScene("framing", AppPoints, viewForPoints(AppPoints),
                 CloseAltitudeFor(viewForPoints(AppPoints).farAltitude))

ApplyViewForPoints ==
    /\ call = NoCall
    /\ \E pts \in PointSeqs :
          call' = [op |-> "viewForPoints", points |-> pts, result |-> viewForPoints(pts)]
    /\ UNCHANGED << sceneVars, homeVars, authVars, spotifyVars >>

ApplyWrapLng ==
    /\ call = NoCall
    /\ \E lng \in LngInputs :
          call' = [op |-> "wrapLng", lng |-> lng, result |-> wrapLng(lng)]
    /\ UNCHANGED << sceneVars, homeVars, authVars, spotifyVars >>

ApplyLatLngFromCartesian ==
    /\ call = NoCall
    /\ \E v \in Vectors :
          call' = [op |-> "latLngFromCartesian", vector |-> v,
                   result |-> latLngFromCartesian(v)]
    /\ UNCHANGED << sceneVars, homeVars, authVars, spotifyVars >>

\* latLngFromCartesian(cartesianFromLatLng(p)).
ApplyRoundTrip ==
    /\ call = NoCall
    /\ \E p \in GeoPoints :
          call' = [op |-> "roundTrip", point |-> p, vector |-> cartesianFromLatLng(p),
                   result |-> latLngFromCartesian(cartesianFromLatLng(p))]
    /\ UNCHANGED << sceneVars, homeVars, authVars, spotifyVars >>

ApplyAngularDistance ==
    /\ call = NoCall
    /\ \E a \in DistancePoints, b \in DistancePoints :
          call' = [op |-> "angularDistance", a |-> a, b |-> b,
                   asinArg |-> AsinArg(a, b), result |-> angularDistance(a, b)]
    /\ UNCHANGED << sceneVars, homeVars, authVars, spotifyVars >>

NextGeo ==
    \/ ApplyViewForPoints
    \/ ApplyWrapLng
    \/ ApplyLatLngFromCartesian
    \/ ApplyRoundTrip
    \/ ApplyAngularDistance

SpecGeo == InitGeo /\ [][NextGeo]_vars

-----------------------------------------------------------------------------
(* The admin session: issueAdminToken, validateAdminToken and the login route. *)

\* A time in milliseconds since the epoch is held as whole seconds and the milliseconds
\* over, so that a year of milliseconds fits the integers of the checker.
Time(sec, msec) == [s |-> sec, ms |-> msec]

TimeLess(a, b) == a.s < b.s \/ (a.s = b.s /\ a.ms < b.ms)

TimePlus(a, b) ==
    [s |-> a.s + b.s + ((a.ms + b.ms) \div 1000), ms |-> (a.ms + b.ms) % 1000]

SESSION_COOKIE_NAME == "petar_admin_session"
\* 365 * 24 * 60 * 60 * 1000 milliseconds.
SESSION_TTL_MS == Time(365 * 24 * 60 * 60, 0)
\* Math.floor(SESSION_TTL_MS / 1000).
sessionMaxAgeSeconds == SESSION_TTL_MS.s

\* process.env.ADMIN_SESSION_SECRET, and a key that is not it.
getSecret == "secret"
OtherKey == "other"

\* The length of a base64url SHA-256 digest.
DigestLength == 43

\* JSON.stringify(session) in base64url: the text of an object with role and exp.
EncodePayload(session) ==
    [json |-> "object", role |-> session.role, exp |-> session.exp, expIsNumber |-> TRUE]

\* crypto.createHmac("sha256", secret).update(payload).digest("base64url").
Hmac(secret, payload) == [key |-> secret, payload |-> payload, length |-> DigestLength]

encode(session, secret) ==
    [kind |-> "token", payload |-> EncodePayload(session),
     sig |-> Hmac(secret, EncodePayload(session))]

\* The expiry test with the instant of expiry itself rejected.
Expired_inclusive(exp, now) == ~TimeLess(now, exp)

\* session.exp < Date.now().
Expired(exp, now) == TimeLess(exp, now)

\* decode: "session" for a session returned, "null" for null, "throws" for an exception
\* that leaves decode (crypto.timingSafeEqual on buffers of different lengths).
decode(token, secret, now) ==
    IF token.kind # "token" THEN "null"
    ELSE IF token.sig.length # Hmac(secret, token.payload).length THEN "throws"
    ELSE IF token.sig # Hmac(secret, token.payload) THEN "null"
    ELSE IF token.payload.json # "object" THEN "null"
    ELSE IF token.payload.role # "admin" THEN "null"
    ELSE IF ~token.payload.expIsNumber \/ Expired(token.payload.exp, now) THEN "null"
    ELSE "session"

issueAdminToken(now) == encode([role |-> "admin", exp |-> TimePlus(now, SESSION_TTL_MS)], getSecret)

\* validateAdminToken: token is << >> for undefined, else << the cookie's value >>.
validateAdminToken(token, now) ==
    IF token = << >> \/ token[1].kind = "empty" THEN [result |-> FALSE, threw |-> FALSE]
    ELSE LET decoded == decode(token[1], getSecret, now)
         IN  IF decoded = "throws" THEN [result |-> FALSE, threw |-> FALSE]
             ELSE [result |-> decoded # "null", threw |-> FALSE]

\* The instants of the clock: around the start and around a year later, to the millisecond.
Seconds == {0, 1, SESSION_TTL_MS.s, SESSION_TTL_MS.s + 1}
Instants == {Time(sec, msec) : sec \in Seconds, msec \in {0, 1, 999}}

\* Cookie values that issueAdminToken did not make: the empty string, a string without a
\* dot, and a token issued now with its signature, payload, role or expiry replaced.
Altered(now) ==
    LET good == issueAdminToken(now)
        blank == [json |-> "object", role |-> "", exp |-> Time(0, 0), expIsNumber |-> TRUE]
        resigned(payload) == [kind |-> "token", payload |-> payload,
                              sig |-> Hmac(getSecret, payload)]
    IN  { [kind |-> "empty", payload |-> blank, sig |-> Hmac(OtherKey, blank)],
          [kind |-> "nodot", payload |-> blank, sig |-> Hmac(OtherKey, blank)],
          [good EXCEPT !.sig = Hmac(OtherKey, good.payload)],
          [good EXCEPT !.sig.length = DigestLength - 1],
          [good EXCEPT !.payload.exp = TimePlus(good.payload.exp, SESSION_TTL_MS)],
          resigned([good.payload EXCEPT !.role = "user"]),
          resigned([good.payload EXCEPT !.expIsNumber = FALSE]),
          resigned([good.payload EXCEPT !.json = "null"]),
          resigned([good.payload EXCEPT !.json = "invalid"]) }

InitAuth ==
    /\ call = NoCall
    /\ HomeRendered(0, 0)
    /\ NoSession
    /\ NoPlayback
    /\ zoomProgress = 0
    /\ texturesReady = TRUE
    /\ InitScene("framing", AppPoints, viewForPoints(AppPoints),
                 CloseAltitudeFor(viewForPoints(AppPoints).farAltitude))

\* Time passes.
Tick ==
    /\ \E later \in Instants :
          /\ TimeLess(clock, later)
          /\ clock' = later
    /\ UNCHANGED << sceneVars, homeVars, spotifyVars, cookie, call >>

\* POST with the right password: a token is issued and set as the session cookie.
Login ==
    /\ cookie' = << [value |-> issueAdminToken(clock), maxAge |-> sessionMaxAgeSeconds,
                    issued |-> TRUE, at |-> clock] >>
    /\ call' = [op |-> "issueAdminToken", now |-> clock, result |-> issueAdminToken(clock)]
    /\ UNCHANGED << sceneVars, homeVars, spotifyVars, clock >>

\* The client replaces the cookie's value by one the server did not issue.
AlterCookie ==
    /\ \E value \in Altered(clock) :
          cookie' = << [value |-> value, maxAge |-> sessionMaxAgeSeconds,
                        issued |-> FALSE, at |-> clock] >>
    /\ UNCHANGED << sceneVars, homeVars, spotifyVars, clock, call >>

\* GET: the cookie, if any, is validated.
CheckSession ==
    /\ LET token == IF cookie = << >> THEN << >> ELSE << cookie[1].value >>
           outcome == validateAdminToken(token, clock)
       IN  call' = [op |-> "validateAdminToken", cookie |-> cookie, now |-> clock,
                    result |-> outcome.result, threw |-> outcome.threw]
    /\ UNCHANGED << sceneVars, homeVars, spotifyVars, clock, cookie >>

NextAuth ==
    \/ Tick
    \/ Login
    \/ AlterCookie
    \/ CheckSession

SpecAuth == InitAuth /\ [][NextAuth]_vars

-----------------------------------------------------------------------------
(* The page (Home): scroll and resize events, and the progress it computes. *)

\* Lengths of the window are held in tenths of a pixel.
Px == Scale \div 1000

\* The dead zone is 0.12 of the viewport height and at least 80 px; the scroll range is 0.8
\* of it and at least 1 px; an update smaller than 0.003 is skipped.
DEAD_ZONE_PERCENT == 12
DEAD_ZONE_MIN == 80
SCROLL_RANGE_PERCENT == 80
SCROLL_RANGE_MIN == 1
PROGRESS_EPSILON == 30

\* The most animation frames requested, and the most events counted between computations.
MaxFrames == 3
MaxEvents == 3

DeadZone(h) == Max(RoundDiv(h * DEAD_ZONE_PERCENT, 100), DEAD_ZONE_MIN * Px)

ScrollRange(h) == Max(RoundDiv(h * SCROLL_RANGE_PERCENT, 100), SCROLL_RANGE_MIN * Px)

\* The progress without the cap at 1.
ProgressAt_uncapped(y, h) == Div(Max(y - DeadZone(h), 0), ScrollRange(h))

\* The progress the frame callback computes from window.scrollY and window.innerHeight.
ProgressAt(y, h) == Min(Div(Max(y - DeadZone(h), 0), ScrollRange(h)), Scale)

\* The updater of setScrollProgress.
NextScrollProgress(prev, progress) ==
    IF Abs(prev - progress) < PROGRESS_EPSILON THEN prev ELSE progress

\* The guard of handleScroll never taken.
FramePending_never(ref) == FALSE

\* The guard of handleScroll: a frame is already requested.
FramePending(ref) == ref # << >>

\* Scroll positions: an overscroll above the top, the top, just past the dead zone, the
\* middle and the end of the range of the tall window, just short of the end, and beyond.
ScrollInputs == {-50 * Px, 0, 243 * Px, 1040 * Px, 1837 * Px, 1840 * Px, 3000 * Px}
\* Viewport heights: none, and a tall window.
HeightInputs == {0, 2000 * Px}

\* handleScroll: request a frame unless one is requested already.
HandleScroll ==
    /\ pendingEvents' = pendingEvents + 1
    /\ IF FramePending(scrollFrameRef)
       THEN UNCHANGED << scrollFrameRef, frameQueue, nextFrame >>
       ELSE /\ scrollFrameRef' = << nextFrame >>
            /\ frameQueue' = frameQueue \cup {nextFrame}
            /\ nextFrame' = nextFrame + 1

\* handleScroll can be followed within the bounds.
WithinBounds ==
    /\ pendingEvents < MaxEvents
    /\ FramePending(scrollFrameRef) \/ nextFrame <= MaxFrames

InitHome ==
    /\ call = NoCall
    /\ NoSession
    /\ NoPlayback
    /\ zoomProgress = 0
    /\ texturesReady = TRUE
    /\ InitScene("framing", AppPoints, viewForPoints(AppPoints),
                 CloseAltitudeFor(viewForPoints(AppPoints).farAltitude))
    /\ \E y \in {0, 1040 * Px}, h \in HeightInputs : HomeRendered(y, h)

\* The page's effect runs: handleScroll is called once and the listeners are added.
HomeMount ==
    /\ homePhase = "rendered"
    /\ homePhase' = "mounted"
    /\ HandleScroll
    /\ UNCHANGED << sceneVars, authVars, spotifyVars, call, scrollY, innerHeight, scrollProgress, computed >>

\* The window scrolls; the scroll listener, if added, calls handleScroll.
Scroll ==
    /\ homePhase = "mounted" => WithinBounds
    /\ \E y \in ScrollInputs \ {scrollY} : scrollY' = y
    /\ IF homePhase = "mounted" THEN HandleScroll
       ELSE UNCHANGED << scrollFrameRef, frameQueue, nextFrame, pendingEvents >>
    /\ UNCHANGED << sceneVars, authVars, spotifyVars, call, homePhase, innerHeight, scrollProgress,
                    computed >>

\* The window is resized; the resize listener, if added, calls handleScroll.
Resize ==
    /\ homePhase = "mounted" => WithinBounds
    /\ \E h \in HeightInputs \ {innerHeight} : innerHeight' = h
    /\ IF homePhase = "mounted" THEN HandleScroll
       ELSE UNCHANGED << scrollFrameRef, frameQueue, nextFrame, pendingEvents >>
    /\ UNCHANGED << sceneVars, authVars, spotifyVars, call, homePhase, scrollY, scrollProgress, computed >>

\* A requested animation frame fires: the callback computes the progress.
FrameFire ==
    /\ \E frame \in frameQueue :
          /\ frameQueue' = frameQueue \ {frame}
          /\ computed' = << [frame |-> frame, progress |-> ProgressAt(scrollY, innerHeight),
                             scrollY |-> scrollY, innerHeight |-> innerHeight,
                             events |-> pendingEvents] >>
    /\ scrollFrameRef' = << >>
    /\ pendingEvents' = 0
    /\ scrollProgress' = NextScrollProgress(scrollProgress, ProgressAt(scrollY, innerHeight))
    /\ UNCHANGED << sceneVars, authVars, spotifyVars, call, homePhase, scrollY, innerHeight, nextFrame >>

\* The page unmounts: the listeners are removed and the requested frame is cancelled.
HomeUnmount ==
    /\ homePhase = "mounted"
    /\ homePhase' = "unmounted"
    /\ frameQueue' = IF scrollFrameRef # << >> THEN frameQueue \ {scrollFrameRef[1]}
                     ELSE frameQueue
    /\ UNCHANGED << sceneVars, authVars, spotifyVars, call, scrollY, innerHeight, scrollFrameRef,
                    nextFrame, scrollProgress, pendingEvents, computed >>

NextHome ==
    \/ HomeMount
    \/ Scroll
    \/ Resize
    \/ FrameFire
    \/ HomeUnmount

SpecHome == InitHome /\ [][NextHome]_vars

-----------------------------------------------------------------------------
(* The now-playing route: GET, fetchNowPlaying and fetchAccessToken. Each invocation runs
   from one await to the next in one step; the module state is shared between them. *)

TOKEN_EXPIRY_BUFFER_MS == 60000
PLAYBACK_CACHE_MS == 8000

\* The invocations of GET started in a behavior.
MaxCalls == 2

\* The instants of the server clock: the start, the instant the playback cache of the start
\* goes stale, and the instant a token of the start stops being used.
ServerInstants == {0, PLAYBACK_CACHE_MS, 3600 * 1000 - TOKEN_EXPIRY_BUFFER_MS}

\* The access tokens the token endpoint hands out.
Tokens == {"t1", "t2"}

\* The responses of the token endpoint: res.ok, and the body's access_token and expires_in
\* (<< >> where the field is missing or of another type).
TokenResponses ==
    [ok : BOOLEAN, access_token : {<< >>} \cup {<< t >> : t \in Tokens},
     expires_in : {<< >>, << 30 >>, << 3600 >>}]

\* The responses of the now-playing endpoint: the status, and whether the body has an item.
NowPlayingResponses ==
    {[status |-> 200, item |-> TRUE], [status |-> 200, item |-> FALSE],
     [status |-> 204, item |-> FALSE], [status |-> 401, item |-> FALSE],
     [status |-> 500, item |-> FALSE]}

\* res.ok.
Ok(code) == 200 <= code /\ code <= 299

\* The token cache left as it is after a 401.
AfterUnauthorized_kept(cache) == cache

\* The token cache after a 401 that is retried: accessToken null, expiresAt 0.
AfterUnauthorized(cache) == [accessToken |-> << >>, expiresAt |-> 0]

\* fetchAccessToken's test of the cache.
TokenCached(cache, at) ==
    cache.accessToken # << >> /\ cache.expiresAt > at + TOKEN_EXPIRY_BUFFER_MS

\* GET's test of the playback cache.
PlaybackCached(cache, at) ==
    cache.payload # << >> /\ at - cache.fetchedAt < PLAYBACK_CACHE_MS

\* The invocation ends: GET answers with the payload, or with the error and status 500.
Answered(rec, result) ==
    [rec EXCEPT !.pc = "done", !.result = result,
                !.status = IF result = "error" THEN 500 ELSE 200]

\* The now-playing request is sent with the token.
Requested(rec, token, fromCache) ==
    [rec EXCEPT !.pc = "nowPlaying",
                !.sent = Append(@, [token |-> token, fromCache |-> fromCache, status |-> 0])]

\* fetchNowPlaying(retry) up to its first request: getEnv throws, or the cached token is
\* used for the now-playing request, or a token is requested.
FetchNowPlaying(rec, retry, cache) ==
    IF ~env THEN Answered([rec EXCEPT !.retry = retry], "error")
    ELSE IF TokenCached(cache, dateNow)
         THEN Requested([rec EXCEPT !.retry = retry], cache.accessToken[1], TRUE)
         ELSE [rec EXCEPT !.retry = retry, !.pc = "tokenFetch", !.tokenRequests = @ + 1]

\* A request arrives: GET answers from the playback cache or calls fetchNowPlaying().
GetStart ==
    /\ \E p \in Invocations :
          /\ inv[p].pc \in {"idle", "done"}
          /\ started < MaxCalls
          /\ started' = started + 1
          /\ inv' = [inv EXCEPT ![p] =
                        IF PlaybackCached(playbackCache, dateNow)
                        THEN Answered(Idle, "cached")
                        ELSE FetchNowPlaying(Idle, TRUE, tokenCache)]
    /\ UNCHANGED << tokenCache, playbackCache, dateNow, env >>
    /\ UNCHANGED << sceneVars, homeVars, authVars, call >>

\* The token endpoint answers: fetchAccessToken throws, or stores the token and returns
\* it, and fetchNowPlaying sends the now-playing request with it.
TokenResponse ==
    /\ \E p \in Invocations :
          /\ inv[p].pc = "tokenFetch"
          /\ \E resp \in TokenResponses :
                IF resp.ok /\ resp.access_token # << >> /\ resp.expires_in # << >>
                THEN /\ tokenCache' = [accessToken |-> resp.access_token,
                                       expiresAt |-> dateNow + resp.expires_in[1] * 1000]
                     /\ inv' = [inv EXCEPT ![p] = Requested(@, resp.access_token[1], FALSE)]
                ELSE /\ inv' = [inv EXCEPT ![p] = Answered(@, "error")]
                     /\ UNCHANGED tokenCache
    /\ UNCHANGED << playbackCache, dateNow, env, started >>
    /\ UNCHANGED << sceneVars, homeVars, authVars, call >>

\* The now-playing endpoint answers: fetchNowPlaying returns a payload, retries after
\* clearing the token cache, or throws; GET stores the payload it got.
NowPlayingResponse ==
    /\ \E p \in Invocations :
          /\ inv[p].pc = "nowPlaying"
          /\ \E resp \in NowPlayingResponses :
                LET rec == [inv[p] EXCEPT !.sent[Len(inv[p].sent)].status = resp.status]
                IN  IF resp.status = 401 /\ rec.retry
                    THEN /\ tokenCache' = AfterUnauthorized(tokenCache)
                         /\ inv' = [inv EXCEPT ![p] =
                                       FetchNowPlaying(rec, FALSE,
                                                       AfterUnauthorized(tokenCache))]
                         /\ UNCHANGED playbackCache
                    ELSE IF resp.status # 204 /\ ~Ok(resp.status)
                    THEN /\ inv' = [inv EXCEPT ![p] = Answered(rec, "error")]
                         /\ UNCHANGED << tokenCache, playbackCache >>
                    ELSE /\ inv' = [inv EXCEPT ![p] = Answered(rec, "payload")]
                         /\ playbackCache' =
                               [payload |-> << [isPlaying |-> resp.status = 200 /\ resp.item] >>,
                                fetchedAt |-> dateNow]
                         /\ UNCHANGED tokenCache
    /\ UNCHANGED << dateNow, env, started >>
    /\ UNCHANGED << sceneVars, homeVars, authVars, call >>

\* Time passes on the server.
ServerTick ==
    /\ \E later \in ServerInstants :
          /\ dateNow < later
          /\ dateNow' = later
    /\ UNCHANGED << tokenCache, playbackCache, env, inv, started >>
    /\ UNCHANGED << sceneVars, homeVars, authVars, call >>

InitNowPlaying ==
    /\ call = NoCall
    /\ HomeRendered(0, 0)
    /\ NoSession
    /\ zoomProgress = 0
    /\ texturesReady = TRUE
    /\ InitScene("framing", AppPoints, viewForPoints(AppPoints),
                 CloseAltitudeFor(viewForPoints(AppPoints).farAltitude))
    /\ tokenCache = [accessToken |-> << >>, expiresAt |-> 0]
    /\ playbackCache = [payload |-> << >>, fetchedAt |-> 0]
    /\ dateNow = 0
    /\ env \in BOOLEAN
    /\ inv = [p \in Invocations |-> Idle]
    /\ started = 0

NextNowPlaying ==
    \/ GetStart
    \/ TokenResponse
    \/ NowPlayingResponse
    \/ ServerTick

SpecNowPlaying == InitNowPlaying /\ [][NextNowPlaying]_vars

-----------------------------------------------------------------------------
(* The claims. *)

IsView == call.op = "viewForPoints"

\* Two points opposite each other on the globe.
Antipodal(a, b) == b.lat = -a.lat /\ Abs(b.lng - a.lng) = Pi

\* The orderings of n things.
Orderings(n) == {f \in [1..n -> 1..n] : \A i, j \in 1..n : i # j => f[i] # f[j]}
Reordered(seq, f) == [i \in 1..Len(seq) |-> seq[f[i]]]

\* The tolerance of a round trip: a tenth of a degree.
Tolerance == AngleScale \div 10

\* C1: whatever points viewForPoints is given (none, one, several, sets whose vectors
\* cancel), the farAltitude it returns lies in [CLOSE_ALTITUDE, FAR_ALTITUDE].
C1_WideAltitudeInRange ==
    IsView =>
        /\ CLOSE_ALTITUDE <= call.result.farAltitude
        /\ call.result.farAltitude <= FAR_ALTITUDE

\* viewForPoints has framed two points whose vectors cancel exactly.
C1_Witness ==
    /\ IsView
    /\ Len(call.points) = 2
    /\ Magnitude(SumVectors(call.points)) = 0
    /\ call.result.farAltitude = FAR_ALTITUDE

\* C2: in every state of the component the closeAltitude memo is the farAltitude less the
\* fixed offset, floored at the close constant, and lies between that constant and the
\* farAltitude.
C2_CloseAltitudeInRange ==
    /\ closeAltitude <= basePointOfView.farAltitude
    /\ revision = "framing" =>
          /\ closeAltitude = Max(CLOSE_ALTITUDE, basePointOfView.farAltitude - CLOSE_DELTA)
          /\ CLOSE_ALTITUDE <= closeAltitude
    /\ revision = "fixed" => CLOSE_ALTITUDE_FIXED <= closeAltitude

\* A one-point framing is mounted: the offset would fall below the floor.
C2_Witness ==
    /\ revision = "framing"
    /\ phase = "mounted"
    /\ Len(points) = 1
    /\ basePointOfView.farAltitude - CLOSE_DELTA < CLOSE_ALTITUDE
    /\ closeAltitude = CLOSE_ALTITUDE

\* C3: the target altitude is the farAltitude at progress 0, the closeAltitude at progress
\* 1, and does not increase as progress increases from 0 to 1.
C3_TargetAltitudeEndpointsMonotone ==
    LET far == basePointOfView.farAltitude
        inRange == {q \in ProgressInputs \cup {1, Scale - 1} : 0 <= q /\ q <= Scale}
    IN  /\ TargetAltitude(far, closeAltitude, 0) = far
        /\ TargetAltitude(far, closeAltitude, Scale) = closeAltitude
        /\ \A p1, p2 \in inRange :
              p1 <= p2 => TargetAltitude(far, closeAltitude, p1)
                            >= TargetAltitude(far, closeAltitude, p2)
        /\ (lastCall # << >> /\ lastCall[1].by = "progress" /\ zoomProgress = 0)
              => lastCall[1].pov.altitude = far
        /\ (lastCall # << >> /\ lastCall[1].by = "progress" /\ zoomProgress = Scale)
              => lastCall[1].pov.altitude = closeAltitude

\* The zoomProgress effect has applied progress 1 to a framing whose close altitude is
\* below its far altitude.
C3_Witness ==
    /\ lastCall # << >>
    /\ lastCall[1].by = "progress"
    /\ zoomProgress = Scale
    /\ camera[1].altitude = closeAltitude
    /\ closeAltitude < basePointOfView.farAltitude

\* C4: a progress below 0 gives the target altitude of 0 and a progress above 1 that of 1,
\* and every altitude the zoomProgress effect passes to the camera lies in
\* [closeAltitude, farAltitude].
C4_ProgressClamped ==
    LET far == basePointOfView.farAltitude
    IN  /\ \A q \in ProgressInputs :
              /\ q < 0 => TargetAltitude(far, closeAltitude, q)
                            = TargetAltitude(far, closeAltitude, 0)
              /\ q > Scale => TargetAltitude(far, closeAltitude, q)
                                = TargetAltitude(far, closeAltitude, Scale)
        /\ (lastCall # << >> /\ lastCall[1].by = "progress") =>
              /\ closeAltitude <= lastCall[1].pov.altitude
              /\ lastCall[1].pov.altitude <= far

\* The zoomProgress effect has applied a progress above 1.
C4_Witness ==
    /\ lastCall # << >>
    /\ lastCall[1].by = "progress"
    /\ zoomProgress > Scale
    /\ lastCall[1].pov.altitude = closeAltitude
    /\ closeAltitude < basePointOfView.farAltitude

\* C5: framing two antipodal points gives a vector sum of magnitude zero, the default
\* center and FAR_ALTITUDE.
C5_AntipodalFallsBack ==
    (IsView /\ Len(call.points) = 2 /\ Antipodal(call.points[1], call.points[2])) =>
        /\ Magnitude(SumVectors(call.points)) = 0
        /\ call.result.lat = DEFAULT_POINT_OF_VIEW.lat
        /\ call.result.lng = DEFAULT_POINT_OF_VIEW.lng
        /\ call.result.farAltitude = FAR_ALTITUDE

\* C6: viewForPoints of no points is the default center at FAR_ALTITUDE.
C6_EmptyIsDefault ==
    (IsView /\ Len(call.points) = 0) =>
        call.result = [lat |-> DEFAULT_POINT_OF_VIEW.lat, lng |-> DEFAULT_POINT_OF_VIEW.lng,
                       farAltitude |-> FAR_ALTITUDE]

\* viewForPoints has been applied to no points.
C6_Witness ==
    /\ IsView
    /\ Len(call.points) = 0
    /\ call.result.lat = 20 * AngleScale

ReturnsPoint ==
    \/ call.op \in {"latLngFromCartesian", "roundTrip"}
    \/ IsView /\ Len(call.points) >= 2 /\ Magnitude(SumVectors(call.points)) # 0

\* C8 as stated: every longitude returned lies in (-180, 180], and 180 stays 180.
C8_LngHalfOpenAbove ==
    /\ ReturnsPoint => (-Pi < call.result.lng /\ call.result.lng <= Pi)
    /\ (call.op = "wrapLng" /\ call.lng = Pi) => call.result = Pi

\* C8 as amended: every longitude returned lies in [-180, 180); a longitude of exactly 180
\* is returned as -180.
C8_LngHalfOpenBelow ==
    /\ ReturnsPoint => (-Pi <= call.result.lng /\ call.result.lng < Pi)
    /\ (call.op = "wrapLng" /\ Abs(call.lng) = Pi) => call.result = -Pi
    /\ (call.op = "latLngFromCartesian" /\ Atan2(call.vector.y, call.vector.x) = Pi)
          => call.result.lng = -Pi

\* latLngFromCartesian has been applied to the vector (-1, 0, 0), whose atan2 is 180.
C8_Witness ==
    /\ call.op = "latLngFromCartesian"
    /\ call.vector = [x |-> -Scale, y |-> 0, z |-> 0]
    /\ Atan2(call.vector.y, call.vector.x) = Pi
    /\ call.result.lng = -Pi

IsRoundTrip == call.op = "roundTrip" /\ Abs(call.point.lat) < HalfPi

\* C9 as stated: away from the poles the round trip reproduces latitude and longitude,
\* at longitude 180 and -180 too.
C9_RoundTripAll ==
    IsRoundTrip =>
        /\ Abs(call.result.lat - call.point.lat) <= Tolerance
        /\ Abs(call.result.lng - call.point.lng) <= Tolerance

\* C9 as amended: away from the poles the round trip reproduces the latitude, and the
\* longitude wherever it is in [-180, 180); a longitude of exactly 180 comes back as -180.
C9_RoundTripBelow180 ==
    IsRoundTrip =>
        /\ Abs(call.result.lat - call.point.lat) <= Tolerance
        /\ call.point.lng < Pi => Abs(call.result.lng - call.point.lng) <= Tolerance
        /\ call.point.lng = Pi => call.result.lng = -Pi

\* A point at longitude 180 has made the round trip.
C9_Witness ==
    /\ IsRoundTrip
    /\ call.point.lng = Pi
    /\ call.vector.x < 0
    /\ call.result.lng = -Pi

\* C10: angularDistance passes Math.asin an argument of at most 1 and returns an angle in
\* [0, pi], never NaN.
C10_AngularDistanceInRange ==
    call.op = "angularDistance" =>
        /\ 0 <= call.asinArg
        /\ call.asinArg <= Scale
        /\ call.result # NaN
        /\ 0 <= call.result
        /\ call.result <= Pi

\* angularDistance has been applied to two points for which the square root of h exceeds 1.
C10_Witness ==
    /\ call.op = "angularDistance"
    /\ Sqrt(Haversine(call.a, call.b)) > Scale
    /\ call.asinArg = Scale
    /\ call.result = Pi

\* viewForPoints has been applied to the same point twice.
IsTwice == IsView /\ Len(call.points) = 2 /\ call.points[1] = call.points[2]

\* The farAltitude of a spread of zero: CLOSE_ALTITUDE + 0.35 * (FAR_ALTITUDE - CLOSE_ALTITUDE).
FloorAltitude == CLOSE_ALTITUDE + Mul(FAR_ALTITUDE - CLOSE_ALTITUDE, SPREAD_FLOOR)

TargetFor(progress) == TargetAltitude(basePointOfView.farAltitude, closeAltitude, progress)

\* The call the zoomProgress effect makes for a progress.
ProgressCall(progress) ==
    [by |-> "progress",
     pov |-> [lat |-> basePointOfView.lat, lng |-> basePointOfView.lng,
              altitude |-> TargetFor(progress)]]

\* C12: when zoomProgress changes and the globe is there, the zoomProgress effect calls
\* g.pointOfView if and only if the memo is null or differs from the target altitude by at
\* least 0.0005; a call sets the memo and the camera to the target, and a skipped update
\* leaves the memo and the camera as they were.
C12_UpdateSuppression ==
    [][(zoomProgress' # zoomProgress /\ globeRef) =>
          /\ (applied' # << >>) <=>
                (\/ lastAltitudeRef = << >>
                 \/ Abs(lastAltitudeRef[1] - TargetFor(zoomProgress')) >= EPSILON)
          /\ applied' # << >> =>
                /\ applied' = << ProgressCall(zoomProgress') >>
                /\ camera' = << ProgressCall(zoomProgress').pov >>
                /\ lastAltitudeRef' = << TargetFor(zoomProgress') >>
          /\ applied' = << >> => UNCHANGED << lastAltitudeRef, camera, lastCall >>]_vars

\* The zoomProgress effect has skipped an update: the target altitude is not the memo's, yet
\* within 0.0005 of it, and the camera is where the memo says.
C12_Witness ==
    /\ phase = "mounted"
    /\ globeRef
    /\ applied = << >>
    /\ lastAltitudeRef # << >>
    /\ lastAltitudeRef[1] # TargetFor(zoomProgress)
    /\ Abs(lastAltitudeRef[1] - TargetFor(zoomProgress)) < EPSILON
    /\ camera[1].altitude = lastAltitudeRef[1]

\* C13: when the numbers of basePointOfView change, the memo reset runs before the
\* zoomProgress effect is evaluated, and with the globe there that effect applies the target
\* altitude of the new framing, however close it is to the altitude the memo held.
C13_MemoClearedOnReframe ==
    [][(basePointOfView' # basePointOfView) =>
          /\ resetFrom' = << lastAltitudeRef >>
          /\ globeRef =>
                /\ applied' # << >>
                /\ applied'[Len(applied')] = ProgressCall(zoomProgress)'
                /\ camera' = << ProgressCall(zoomProgress)'.pov >>
                /\ lastAltitudeRef' = << TargetFor(zoomProgress)' >>
          /\ ~globeRef => lastAltitudeRef' = << >>]_vars

\* The framing has changed while the memo held an altitude within 0.0005 of the new target,
\* and the zoomProgress effect has applied the new target.
C13_Witness ==
    /\ resetFrom # << >>
    /\ resetFrom[1] # << >>
    /\ lastAltitudeRef # << >>
    /\ Abs(resetFrom[1][1] - lastAltitudeRef[1]) < EPSILON
    /\ applied # << >>
    /\ applied[Len(applied)] = ProgressCall(zoomProgress)
    /\ camera = << ProgressCall(zoomProgress).pov >>

C14_FirstApplicationIsBase ==
    firstCall # << >> => firstCall[1].pov = BasePov

\* C16: every call of g.pointOfView, by the controls effect, by applyBasePointOfView and by
\* the zoomProgress effect, passes the latitude and longitude of the basePointOfView the
\* component holds, and a change of zoomProgress leaves the camera's latitude and longitude
\* as they were.
C16_CenterHeld ==
    [][/\ \A i \in DOMAIN applied' :
             /\ applied'[i].pov.lat = basePointOfView'.lat
             /\ applied'[i].pov.lng = basePointOfView'.lng
       /\ camera' # << >> =>
             /\ camera'[1].lat = basePointOfView'.lat
             /\ camera'[1].lng = basePointOfView'.lng
       /\ (zoomProgress' # zoomProgress /\ camera # << >>) =>
             /\ camera'[1].lat = camera[1].lat
             /\ camera'[1].lng = camera[1].lng]_vars

\* After the points changed to a framing with another center, the zoomProgress effect has
\* moved the camera to an altitude below the farAltitude, at the new center.
C16_Witness ==
    /\ applied = << ProgressCall(zoomProgress) >>
    /\ resetFrom = << >>
    /\ camera[1].altitude < basePointOfView.farAltitude
    /\ camera[1].lat = basePointOfView.lat
    /\ camera[1].lng = basePointOfView.lng
    /\ firstCall[1].pov.lat # basePointOfView.lat
    /\ basePointOfView.lat # DEFAULT_POINT_OF_VIEW.lat

\* The latest step validated the cookie.
IsValidate == call.op = "validateAdminToken" /\ call.cookie # << >>

\* C17: a token issued at t is accepted at every time up to t + 365 days and rejected at
\* every later time; a cookie value with a wrong signature, role or expiry, or none at all,
\* is rejected, and nothing is thrown; the cookie is set with a max-age of 365 days.
C17_SessionLastsOneYear ==
    /\ call.op = "validateAdminToken" => ~call.threw
    /\ (call.op = "validateAdminToken" /\ call.cookie = << >>) => ~call.result
    /\ (IsValidate /\ call.cookie[1].issued) =>
          LET end == [s |-> call.cookie[1].at.s + 365 * 24 * 60 * 60,
                      ms |-> call.cookie[1].at.ms]
          IN  call.result <=> (call.now.s < end.s \/ (call.now.s = end.s /\ call.now.ms <= end.ms))
    /\ (IsValidate /\ ~call.cookie[1].issued) => ~call.result
    /\ cookie # << >> => cookie[1].maxAge = 365 * 24 * 60 * 60

\* A token has been validated, and accepted, at the last millisecond of its year.
C17_Witness ==
    /\ IsValidate
    /\ call.cookie[1].issued
    /\ call.cookie[1].at = Time(1, 999)
    /\ call.now = Time(365 * 24 * 60 * 60 + 1, 999)
    /\ call.result

\* The step is a scroll or resize event handled while a frame is requested.
EventWhilePending ==
    /\ homePhase = "mounted"
    /\ scrollFrameRef # << >>
    /\ scrollY' # scrollY \/ innerHeight' # innerHeight

\* The step is a frame callback computing the progress.
Computation == computed' # computed

\* What holds of coalescing whichever request is kept: at most one frame is requested at
\* any time, a computation serves all the events since the one before it and reads the
\* window as it is when the frame fires, and nothing is computed or left requested once
\* the page is unmounted.
CoalescedPerFrame ==
    /\ Cardinality(frameQueue') <= 1
    /\ homePhase' = "unmounted" => (frameQueue' = {} /\ ~Computation)
    /\ Computation =>
          /\ frameQueue = {computed'[1].frame}
          /\ frameQueue' = {}
          /\ pendingEvents' = 0
          /\ computed'[1].events = pendingEvents
          /\ computed'[1].scrollY = scrollY
          /\ computed'[1].innerHeight = innerHeight
          /\ computed'[1].progress = ProgressAt(scrollY, innerHeight)
    /\ ~Computation => UNCHANGED scrollProgress

\* C18 as stated: events are coalesced to one computation per frame, and an event that
\* arrives while a frame is requested discards that request in favor of its own.
C18_LatestRequestKept ==
    [][/\ CoalescedPerFrame
       /\ EventWhilePending =>
             /\ scrollFrameRef' # scrollFrameRef
             /\ frameQueue' = {scrollFrameRef'[1]}]_vars

\* C18 as amended: events are coalesced to one computation per frame, and an event that
\* arrives while a frame is requested requests nothing: the earliest request is kept.
C18_EarliestRequestKept ==
    [][/\ CoalescedPerFrame
       /\ EventWhilePending => UNCHANGED << scrollFrameRef, frameQueue, nextFrame >>]_vars

\* A frame has fired after three events and computed the progress of the window as it
\* then was; nothing is requested any more.
C18_Witness ==
    /\ homePhase = "mounted"
    /\ computed # << >>
    /\ computed[1].events = 3
    /\ computed[1].scrollY = scrollY
    /\ computed[1].progress = ProgressAt(scrollY, innerHeight)
    /\ computed[1].progress > 0
    /\ frameQueue = {}
    /\ scrollFrameRef = << >>

\* The computed progress as a function of the window: in [0, 1], 0 in the dead zone, not
\* decreasing as the window scrolls down, 1 from the end of the scroll range on.
ProgressShape ==
    \A h \in HeightInputs :
        /\ \A y \in ScrollInputs :
              /\ 0 <= ProgressAt(y, h) /\ ProgressAt(y, h) <= Scale
              /\ y * 100 <= h * 12 \/ y <= 80 * Px => ProgressAt(y, h) = 0
              /\ y - DeadZone(h) >= ScrollRange(h) => ProgressAt(y, h) = Scale
        /\ \A y1, y2 \in ScrollInputs : y1 <= y2 => ProgressAt(y1, h) <= ProgressAt(y2, h)

\* The stored progress is replaced by a computation only when it differs from the computed
\* one by at least 0.003.
ReplacedAtThreshold ==
    Computation =>
        /\ (scrollProgress' # scrollProgress) =>
              /\ scrollProgress' = computed'[1].progress
              /\ Abs(scrollProgress - computed'[1].progress) >= 30
        /\ (scrollProgress' = scrollProgress) =>
              Abs(scrollProgress - computed'[1].progress) < 30

\* C20 as stated: the stored progress, which the page passes to the globe, is in [0, 1], is 0
\* once computed for a window in the dead zone, and is replaced only at a difference of
\* at least 0.003.
C20_SuppliedProgressZeroInDeadZone ==
    [][/\ ProgressShape
       /\ 0 <= scrollProgress' /\ scrollProgress' <= Scale
       /\ ReplacedAtThreshold
       /\ (Computation /\ computed'[1].progress = 0) => scrollProgress' = 0]_vars

\* C20 as amended: the computed progress is in [0, 1], 0 in the dead zone, non-decreasing in
\* the scroll offset and capped at 1; the stored progress is in [0, 1], is replaced only at
\* a difference of at least 0.003, and after a computation is within 0.003 of the computed
\* one.
C20_SuppliedProgressNearComputed ==
    [][/\ ProgressShape
       /\ 0 <= scrollProgress' /\ scrollProgress' <= Scale
       /\ ReplacedAtThreshold
       /\ Computation => Abs(scrollProgress' - computed'[1].progress) < 30]_vars

\* The window is at the top and the progress computed for it is 0, but the stored progress
\* is the small one computed before, less than 0.003 away.
C20_Witness ==
    /\ computed # << >>
    /\ computed[1].scrollY = 0
    /\ scrollY = 0
    /\ computed[1].progress = 0
    /\ scrollProgress > 0
    /\ scrollProgress < 30
    /\ frameQueue = {}

\* The spread viewForPoints measured in the call: the largest distance of a point from the
\* center it returned.
CallSpread == MaxAngularSpread([lat |-> call.result.lat, lng |-> call.result.lng], call.points)

\* The far altitude of every spread from 0 to pi does not decrease as the spread grows.
FarAltitudeMonotone ==
    \A s \in 0 .. (Pi - 1) :
        ClampAltitude(FarAltitudeFor(SpreadRatio(s)))
            <= ClampAltitude(FarAltitudeFor(SpreadRatio(s + 1)))

C22_MemoIsLastAltitude ==
    lastAltitudeRef # << >> =>
        /\ lastCall # << >>
        /\ lastCall[1].pov.altitude = lastAltitudeRef[1]
        /\ camera = << lastCall[1].pov >>

\* The points changed the framing while the memo held an altitude: the controls effect
\* called g.pointOfView at another altitude than the one the memo holds now, and the
\* zoomProgress effect after it.
C22_Witness ==
    /\ resetFrom # << >>
    /\ resetFrom[1] # << >>
    /\ Len(applied) = 2
    /\ applied[1].by = "controls"
    /\ lastAltitudeRef # << >>
    /\ applied[1].pov.altitude # lastAltitudeRef[1]
    /\ applied[2].pov.altitude = lastAltitudeRef[1]

\* The globe is ready and no re-assertion of the base point of view is scheduled: the
\* animation frame, the timeout and onGlobeReady have fired.
Settled ==
    /\ phase = "mounted"
    /\ globeRef
    /\ globeReadyFired
    /\ ~raf
    /\ ~timeout

\* C23: once the globe is ready and every scheduled re-assertion has fired, the camera's
\* altitude is within 0.0005 of the target altitude of the current zoomProgress.
C23_SettledCameraAtTarget ==
    Settled =>
        /\ camera # << >>
        /\ Abs(camera[1].altitude - TargetFor(zoomProgress)) < EPSILON

\* The step is invocation p receiving 401 for its first now-playing request.
FirstUnauthorized(p) ==
    /\ inv[p].pc = "nowPlaying"
    /\ Len(inv[p].sent) = 1
    /\ Len(inv'[p].sent) >= 1
    /\ inv'[p].sent[1].status = 401

\* The step is invocation p receiving 401 for its second now-playing request.
SecondUnauthorized(p) ==
    /\ inv[p].pc = "nowPlaying"
    /\ Len(inv[p].sent) = 2
    /\ Len(inv'[p].sent) = 2
    /\ inv'[p].sent[2].status = 401

\* C21: an invocation sends at most two now-playing requests, the second only after a 401
\* for the first; on that 401 the token cache is cleared (accessToken null, expiresAt 0) and
\* a token is requested, so the second request carries a token fetched after the 401 and
\* not the cached one; a 401 for the second request ends the invocation with an error.
C21_RetriesOnceOnUnauthorized ==
    [][\A p \in Invocations :
          /\ Len(inv'[p].sent) <= 2
          /\ inv'[p].tokenRequests <= 2
          /\ Len(inv'[p].sent) = 2 =>
                /\ inv'[p].sent[1].status = 401
                /\ ~inv'[p].retry
                /\ ~inv'[p].sent[2].fromCache
          /\ FirstUnauthorized(p) =>
                /\ tokenCache' = [accessToken |-> << >>, expiresAt |-> 0]
                /\ ~inv'[p].retry
                /\ inv'[p].pc = "tokenFetch"
                /\ inv'[p].tokenRequests = inv[p].tokenRequests + 1
                /\ Len(inv'[p].sent) = 1
          /\ SecondUnauthorized(p) =>
                /\ inv'[p].pc = "done"
                /\ inv'[p].result = "error"
                /\ inv'[p].status = 500
                /\ UNCHANGED tokenCache]_vars

\* An invocation sent its first request with the cached token and its second with a token
\* fetched after the 401, got 401 for both, and ended with an error.
C21_Witness ==
    \E p \in Invocations :
        /\ inv[p].pc = "done"
        /\ Len(inv[p].sent) = 2
        /\ inv[p].sent[1].fromCache
        /\ inv[p].sent[1].status = 401
        /\ ~inv[p].sent[2].fromCache
        /\ inv[p].sent[2].status = 401
        /\ inv[p].result = "error"
        /\ inv[p].status = 500

=============================================================================
